---- MODULE Spec2Model ----
(***************************************************************************)
(* State-machine model of src/main.py: the Textual application SpotifyTUI  *)
(* (playlist sidebar, track table, playback bar) driving the spotipy       *)
(* client.  Every message handler, worker and timer callback of the app is *)
(* one action; the remote client's answers are drawn from small sets.      *)
(***************************************************************************)
EXTENDS Integers, Sequences, FiniteSets, TLC

\* ------------------------------------------------------------------ bounds
MaxPlaylists == 2   \* longest playlist page the remote returns
MaxQueue == 1       \* DataTable.RowSelected messages posted but not yet handled
MaxInFlight == 2    \* timer polls started and not yet returned

\* ------------------------------------------------------------ Python values
\* None (or an absent value) is the empty sequence, a present value v is <<v>>.
None == <<>>
Some(v) == <<v>>

\* The U+1F3B5 glyph that starts the label of line 28, written in ASCII.
Note == "<U+1F3B5>"

\* ", ".join(names) of line 140.
RECURSIVE JoinNames(_)
JoinNames(names) ==
    IF names = <<>> THEN ""
    ELSE IF Len(names) = 1 THEN names[1]
    ELSE names[1] \o ", " \o JoinNames(Tail(names))

\* The elements of seq at the positions in S, in order, from position i on.
RECURSIVE Pick(_, _, _)
Pick(seq, S, i) ==
    IF i > Len(seq) THEN <<>>
    ELSE (IF i \in S THEN <<seq[i]>> ELSE <<>>) \o Pick(seq, S, i + 1)

\* ------------------------------------------------------- the remote account
\* Track objects as the Web API returns them (the keys main.py reads).
TrackA == [uri |-> "spotify:track:a", name |-> "A", artists |-> <<"X">>,
           album |-> Some("Al1"), duration_ms |-> 200000]
TrackB == [uri |-> "spotify:track:b", name |-> "B", artists |-> <<"Y", "X">>,
           album |-> Some("Al2"), duration_ms |-> 180000]
\* A malformed object: empty artist list and null album.
TrackBad == [uri |-> "spotify:track:c", name |-> "C", artists |-> <<>>,
             album |-> None, duration_ms |-> 200000]
Catalogue == {TrackA, TrackB, TrackBad}

\* What a remote call can raise.  spotipy.SpotifyException is the API error;
\* ConnectionError (requests) is not a subclass of it.
Exceptions == {"SpotifyException", "ConnectionError"}
\* Outcome of a remote write command.
CommandOutcomes == {"ok"} \cup Exceptions

\* sp.current_playback(): raises, returns None (no playback), or a snapshot.
Snapshots == [is_playing : BOOLEAN,
              item : {None} \cup {Some(t) : t \in Catalogue},
              progress_ms : {50000, 250000}]
PlaybackResponses ==
    {[raises |-> e, value |-> None] : e \in Exceptions}
        \cup {[raises |-> "", value |-> None]}
        \cup {[raises |-> "", value |-> Some(s)] : s \in Snapshots}

\* sp.current_user_playlists(limit=20): raises or returns a page of playlists.
\* The account's playlists are Playlist(1), Playlist(2), ...; a page is the
\* first k of them.
Playlist(i) == [id |-> "p" \o ToString(i), name |-> "Playlist " \o ToString(i)]
PlaylistResponses ==
    {[raises |-> e, items |-> <<>>] : e \in Exceptions}
        \cup {[raises |-> "", items |-> [i \in 1..k |-> Playlist(i)]] :
                k \in 0..MaxPlaylists}

\* sp.playlist_items(id, limit=50): raises or returns a page of entries; an
\* entry's track is null for a removed or unavailable track.  A page is any
\* selection of the account's entries, in their order.
AccountEntries == <<[track |-> None], [track |-> Some(TrackA)],
                    [track |-> Some(TrackBad)], [track |-> Some(TrackB)]>>
TrackPages == {Pick(AccountEntries, S, 1) : S \in SUBSET DOMAIN AccountEntries}
TrackResponses ==
    {[raises |-> e, items |-> <<>>] : e \in Exceptions}
        \cup {[raises |-> "", items |-> s] : s \in TrackPages}

\* -------------------------------------------------------------------- state
VARIABLES
    playlists,                \* self.playlists
    current_playlist_tracks,  \* self.current_playlist_tracks
    list_view,                \* names of the ListItems of #playlist_list
    columns,                  \* columns of #track_table
    rows,                     \* rows of #track_table
    bar,                      \* PlaybackBar: label text, ProgressBar total/progress
    worker,                   \* the pending @work(exclusive=True) worker, if any
    msgs,                     \* cursor_row of each RowSelected message in flight
    inflight,                 \* timer polls in flight, in start order: superseded?
    staleApplied,             \* a poll's result was applied after a later poll's
    notifications,            \* self.notify calls of the latest unit of work
    calls,                    \* remote calls of the latest unit of work
    last,                     \* the latest unit of work: name, input, outcome
    crashed                   \* an exception escaped a handler to the run loop

vars == <<playlists, current_playlist_tracks, list_view, columns, rows, bar,
          worker, msgs, inflight, staleApplied, notifications, calls, last,
          crashed>>

Call(fn, args, result) == [fn |-> fn, args |-> args, result |-> result]
Notice(text, severity) == [text |-> text, severity |-> severity]
Unit(op, index, poll, outcome) ==
    [op |-> op, index |-> index, poll |-> poll, outcome |-> outcome]

\* PlaybackBar.compose: Label("Not Playing"), ProgressBar(total=100).
InitialBar == [label |-> "Not Playing", total |-> 100, progress |-> 0]

\* The state once on_mount has returned: setup_ui is scheduled as a worker
\* and the one-second timer is armed.
Init ==
    /\ playlists = <<>>
    /\ current_playlist_tracks = <<>>
    /\ list_view = <<>>
    /\ columns = <<>>
    /\ rows = <<>>
    /\ bar = InitialBar
    /\ worker = Some([fn |-> "setup_ui", arg |-> ""])
    /\ msgs = <<>>
    /\ inflight = <<>>
    /\ staleApplied = FALSE
    /\ notifications = <<>>
    /\ calls = <<>>
    /\ last = Unit("on_mount", None, "none", "ok")
    /\ crashed = FALSE

\* The run loop is alive: an uncaught exception in a handler ends the app.
Running == ~crashed

\* Variant: the poll awaits its read (an async def or a thread worker), so the
\* loop keeps serving timers and messages while a read is in flight.
EventLoopFreeAwaited == TRUE

\* update_playback_state is a plain def that calls the blocking client on the
\* event loop: nothing else runs on the loop while a poll is in flight.
EventLoopFree == inflight = <<>>

\* ------------------------------------------------------------ playback bar
\* Variant: total and progress assigned the wrong way round.
update_status_swapped(b, track_name, artist_name, progress_ms, duration_ms) ==
    [label |-> Note \o " " \o track_name \o " - " \o artist_name,
     total |-> progress_ms, progress |-> duration_ms]

\* Variant: the update stops after bar.total; bar.progress keeps its value.
update_status_partial(b, track_name, artist_name, progress_ms, duration_ms) ==
    LET b1 == [b EXCEPT !.label = Note \o " " \o track_name \o " - " \o artist_name]
    IN  [b1 EXCEPT !.total = duration_ms]

\* PlaybackBar.update_status: the label, then bar.total, then bar.progress.
update_status(b, track_name, artist_name, progress_ms, duration_ms) ==
    LET b1 == [b EXCEPT !.label = Note \o " " \o track_name \o " - " \o artist_name]
        b2 == [b1 EXCEPT !.total = duration_ms]
    IN  [b2 EXCEPT !.progress = progress_ms]

\* What the bare except of update_playback_state leaves behind.
Polled(b, poll) == [bar |-> b, poll |-> poll]

\* Variant: bar.total is written as soon as the duration is read, before the
\* artist is looked up.
update_playback_state_eager(b, resp) ==
    IF resp.raises # "" THEN Polled(b, "raised")
    ELSE IF resp.value = None THEN Polled(b, "empty")
    ELSE LET current == resp.value[1] IN
        IF ~current.is_playing THEN Polled(b, "not_playing")
        ELSE IF current.item = None THEN Polled(b, "malformed")
        ELSE LET item == current.item[1]
                 b1 == [b EXCEPT !.total = item.duration_ms]
             IN
            IF item.artists = <<>>
            THEN Polled(b1, "malformed")
            ELSE Polled(update_status(b1, item.name, item.artists[1],
                                      current.progress_ms, item.duration_ms),
                        "applied")

\* Variant: the bar is reset when nothing is playing.
update_playback_state_clearing(b, resp) ==
    IF resp.raises # "" THEN Polled(b, "raised")
    ELSE IF resp.value = None THEN Polled(InitialBar, "empty")
    ELSE LET current == resp.value[1] IN
        IF ~current.is_playing THEN Polled(InitialBar, "not_playing")
        ELSE IF current.item = None THEN Polled(b, "malformed")
        ELSE LET item == current.item[1] IN
            IF item.artists = <<>>
            THEN Polled(b, "malformed")
            ELSE Polled(update_status(b, item.name, item.artists[1],
                                      current.progress_ms, item.duration_ms),
                        "applied")

\* SpotifyTUI.update_playback_state on the answer resp of current_playback().
update_playback_state(b, resp) ==
    IF resp.raises # "" THEN Polled(b, "raised")
    ELSE IF resp.value = None THEN Polled(b, "empty")
    ELSE LET current == resp.value[1] IN
        IF ~current.is_playing THEN Polled(b, "not_playing")
        ELSE IF current.item = None
            THEN Polled(b, "malformed")     \* item['duration_ms'] on None
        ELSE LET item == current.item[1] IN
            IF item.artists = <<>>
            THEN Polled(b, "malformed")     \* item['artists'][0] out of range
            ELSE Polled(update_status(b, item.name, item.artists[1],
                                      current.progress_ms, item.duration_ms),
                        "applied")

\* The call record of one current_playback() read.
ReadCall(resp) ==
    Call("current_playback", <<>>, IF resp.raises # "" THEN "raised" ELSE "ok")

\* In-flight polls that started before position i are superseded once the
\* result of poll i is shown.
Supersede(flights, i) ==
    [j \in DOMAIN flights |-> IF j < i THEN TRUE ELSE flights[j]]
Without(flights, i) ==
    [j \in 1..(Len(flights) - 1) |-> IF j < i THEN flights[j] ELSE flights[j + 1]]

\* The timer fires: the callback starts and issues its blocking read.
TickStart ==
    /\ Running
    /\ EventLoopFree
    /\ Len(inflight) < MaxInFlight
    /\ inflight' = Append(inflight, FALSE)
    /\ last' = Unit("tick_start", None, "none", "ok")
    /\ notifications' = <<>>
    /\ calls' = <<>>
    /\ UNCHANGED <<playlists, current_playlist_tracks, list_view, columns, rows,
                   bar, worker, msgs, staleApplied, crashed>>

\* The read of in-flight poll i returns resp and the callback runs to its end.
TickReturnWith(i, resp) ==
    /\ Running
    /\ i \in DOMAIN inflight
    /\ LET r == update_playback_state(bar, resp) IN
        /\ bar' = r.bar
        /\ last' = Unit("tick", None, r.poll, "ok")
        /\ staleApplied' = (staleApplied \/ (r.poll = "applied" /\ inflight[i]))
        /\ inflight' = IF r.poll = "applied"
                       THEN Without(Supersede(inflight, i), i)
                       ELSE Without(inflight, i)
    /\ notifications' = <<>>
    /\ calls' = <<ReadCall(resp)>>
    /\ UNCHANGED <<playlists, current_playlist_tracks, list_view, columns, rows,
                   worker, msgs, crashed>>

TickReturn == \E i \in DOMAIN inflight : \E resp \in PlaybackResponses :
    TickReturnWith(i, resp)

\* ------------------------------------------------------------------ workers
\* The ListItems appended by the loop of lines 104-105.
AppendedNames(items) == [i \in DOMAIN items |-> items[i].name]

Shown(pls, lv, cols, notes, outcome) ==
    [playlists |-> pls, list_view |-> lv, columns |-> cols,
     notifications |-> notes, outcome |-> outcome]

\* SpotifyTUI.setup_ui on the answer resp of current_user_playlists().
setup_ui(pls, lv, cols, resp) ==
    IF resp.raises # ""
    THEN Shown(pls, lv, cols,
               <<Notice("Error loading playlists: " \o resp.raises, "error")>>,
               resp.raises)
    ELSE Shown(resp.items, lv \o AppendedNames(resp.items),
               cols \o <<"Title", "Artist", "Album">>, <<>>, "ok")

\* The table.add_row arguments of lines 139-141.
RowOf(track) == <<track.name, JoinNames(track.artists), track.album[1]>>

\* The loop of lines 135-142: rows added until an entry fails (null album).
RECURSIVE AddedRows(_)
AddedRows(items) ==
    IF items = <<>> THEN [rows |-> <<>>, failed |-> FALSE]
    ELSE IF Head(items).track = None THEN AddedRows(Tail(items))
    ELSE LET track == Head(items).track[1] IN
        IF track.album = None THEN [rows |-> <<>>, failed |-> TRUE]
        ELSE LET rest == AddedRows(Tail(items)) IN
            [rows |-> <<RowOf(track)>> \o rest.rows, failed |-> rest.failed]

Loaded(tracks, rws, notes, outcome) ==
    [tracks |-> tracks, rows |-> rws, notifications |-> notes, outcome |-> outcome]

\* Variant: the fetched page is merged into what is held (no table.clear(),
\* the list extended instead of assigned).
load_tracks_merging(tracks, rws, resp) ==
    IF resp.raises # ""
    THEN Loaded(tracks, rws,
                <<Notice("Error loading tracks: " \o resp.raises, "error")>>,
                resp.raises)
    ELSE LET added == AddedRows(resp.items) IN
        IF added.failed
        THEN Loaded(tracks \o resp.items, rws \o added.rows,
                    <<Notice("Error loading tracks: TypeError", "error")>>,
                    "TypeError")
        ELSE Loaded(tracks \o resp.items, rws \o added.rows, <<>>, "ok")

\* SpotifyTUI.load_tracks on the answer resp of playlist_items(playlist_id).
load_tracks(tracks, rws, resp) ==
    IF resp.raises # ""
    THEN Loaded(tracks, rws,
                <<Notice("Error loading tracks: " \o resp.raises, "error")>>,
                resp.raises)
    ELSE LET added == AddedRows(resp.items) IN
        IF added.failed
        THEN Loaded(resp.items, added.rows,
                    <<Notice("Error loading tracks: TypeError", "error")>>,
                    "TypeError")
        ELSE Loaded(resp.items, added.rows, <<>>, "ok")

\* The setup_ui worker scheduled by on_mount runs.
SetupUiRun ==
    /\ Running
    /\ EventLoopFree
    /\ worker # None
    /\ worker[1].fn = "setup_ui"
    /\ \E resp \in PlaylistResponses :
        LET r == setup_ui(playlists, list_view, columns, resp) IN
            /\ playlists' = r.playlists
            /\ list_view' = r.list_view
            /\ columns' = r.columns
            /\ notifications' = r.notifications
            /\ calls' = <<Call("current_user_playlists", <<>>,
                               IF resp.raises # "" THEN resp.raises ELSE "ok")>>
            /\ last' = Unit("setup_ui", None, "none", r.outcome)
    /\ worker' = None
    /\ UNCHANGED <<current_playlist_tracks, rows, bar, msgs, inflight,
                   staleApplied, crashed>>

\* The pending load_tracks worker runs; playlist_items answers resp.
LoadTracksWith(resp) ==
    /\ Running
    /\ EventLoopFree
    /\ worker # None
    /\ worker[1].fn = "load_tracks"
    /\ LET r == load_tracks(current_playlist_tracks, rows, resp) IN
        /\ current_playlist_tracks' = r.tracks
        /\ rows' = r.rows
        /\ notifications' = r.notifications
        /\ calls' = <<Call("playlist_items", <<worker[1].arg>>,
                           IF resp.raises # "" THEN resp.raises ELSE "ok")>>
        /\ last' = Unit("load_tracks", None, "none", r.outcome)
    /\ worker' = None
    /\ UNCHANGED <<playlists, list_view, columns, bar, msgs, inflight,
                   staleApplied, crashed>>

LoadTracksRun ==
    /\ worker # None
    /\ \E resp \in TrackResponses : LoadTracksWith(resp)

\* ------------------------------------------------------- playlist selection
\* Variant: the bound test off by one.
InRangeInclusive(index, pls) == index # None /\ index[1] <= Len(pls)

\* The guard of line 120.
InRange(index, pls) == index # None /\ index[1] < Len(pls)

Chosen(w, outcome, escaped) == [worker |-> w, outcome |-> outcome, escaped |-> escaped]

\* Variant: a pending worker is not replaced (the new load is dropped).
on_list_view_selected_keeping(pls, w, index) ==
    IF InRange(index, pls)
    THEN IF index[1] + 1 \in DOMAIN pls
         THEN Chosen(IF w # None THEN w
                     ELSE Some([fn |-> "load_tracks", arg |-> pls[index[1] + 1].id]),
                     "ok", FALSE)
         ELSE Chosen(w, "IndexError", TRUE)
    ELSE Chosen(w, "noop", FALSE)

\* SpotifyTUI.on_list_view_selected with message.list_view.index = index; the
\* app has one ListView, so the id test of line 118 is true.  A started
\* load_tracks replaces the pending worker of the group (exclusive=True); the
\* handler has no try, so a failing self.playlists[index] escapes.
on_list_view_selected(pls, w, index) ==
    IF InRange(index, pls)
    THEN IF index[1] + 1 \in DOMAIN pls
         THEN Chosen(Some([fn |-> "load_tracks", arg |-> pls[index[1] + 1].id]),
                     "ok", FALSE)
         ELSE Chosen(w, "IndexError", TRUE)
    ELSE Chosen(w, "noop", FALSE)

\* The indexes message.list_view.index can hold: None or a row number.
ListIndexes == {None} \cup {Some(i) : i \in 0..MaxPlaylists}

OnListViewSelected ==
    /\ Running
    /\ EventLoopFree
    /\ \E index \in ListIndexes :
        LET r == on_list_view_selected(playlists, worker, index) IN
            /\ worker' = r.worker
            /\ crashed' = r.escaped
            /\ last' = Unit("list_selected", index, "none", r.outcome)
    /\ notifications' = <<>>
    /\ calls' = <<>>
    /\ UNCHANGED <<playlists, current_playlist_tracks, list_view, columns, rows,
                   bar, msgs, inflight, staleApplied>>

\* ---------------------------------------------------------- track selection
Selected(b, notes, cs, poll, outcome, escaped) ==
    [bar |-> b, notifications |-> notes, calls |-> cs, poll |-> poll,
     outcome |-> outcome, escaped |-> escaped]

\* Variant: "Playback started!" is notified before start_playback is called.
on_data_table_row_selected_optimistic(tracks, b, row_index, cmd, resp) ==
    IF row_index >= Len(tracks)
    THEN Selected(b, <<>>, <<>>, "none", "IndexError", TRUE)
    ELSE LET entry == tracks[row_index + 1] IN
        IF entry.track = None
        THEN Selected(b, <<>>, <<>>, "none", "TypeError", TRUE)
        ELSE LET play == Call("start_playback", <<entry.track[1].uri>>, cmd)
                 started == Notice("Playback started!", "information")
             IN
            IF cmd = "SpotifyException"
            THEN Selected(b, <<started,
                               Notice("Ensure Spotify is open on a device!", "error")>>,
                          <<play>>, "none", cmd, FALSE)
            ELSE IF cmd # "ok"
            THEN Selected(b, <<started>>, <<play>>, "none", cmd, TRUE)
            ELSE LET r == update_playback_state(b, resp) IN
                Selected(r.bar, <<started>>, <<play, ReadCall(resp)>>,
                         r.poll, "ok", FALSE)

\* Variant: the handler leaves the refresh to the timer.
on_data_table_row_selected_no_poll(tracks, b, row_index, cmd, resp) ==
    IF row_index >= Len(tracks)
    THEN Selected(b, <<>>, <<>>, "none", "IndexError", TRUE)
    ELSE LET entry == tracks[row_index + 1] IN
        IF entry.track = None
        THEN Selected(b, <<>>, <<>>, "none", "TypeError", TRUE)
        ELSE LET play == Call("start_playback", <<entry.track[1].uri>>, cmd) IN
            IF cmd = "SpotifyException"
            THEN Selected(b, <<Notice("Ensure Spotify is open on a device!", "error")>>,
                          <<play>>, "none", cmd, FALSE)
            ELSE IF cmd # "ok"
            THEN Selected(b, <<>>, <<play>>, "none", cmd, TRUE)
            ELSE Selected(b, <<Notice("Playback started!", "information")>>,
                          <<play>>, "none", "ok", FALSE)

\* SpotifyTUI.on_data_table_row_selected for message.cursor_row = row_index,
\* where start_playback ends as cmd and the poll's read answers resp.  Only
\* spotipy.SpotifyException is caught (line 159).
on_data_table_row_selected(tracks, b, row_index, cmd, resp) ==
    IF row_index >= Len(tracks)
    THEN Selected(b, <<>>, <<>>, "none", "IndexError", TRUE)
    ELSE LET entry == tracks[row_index + 1] IN
        IF entry.track = None
        THEN Selected(b, <<>>, <<>>, "none", "TypeError", TRUE)
        ELSE LET track_uri == entry.track[1].uri
                 play == Call("start_playback", <<track_uri>>, cmd)
             IN
            IF cmd = "SpotifyException"
            THEN Selected(b, <<Notice("Ensure Spotify is open on a device!", "error")>>,
                          <<play>>, "none", cmd, FALSE)
            ELSE IF cmd # "ok"
            THEN Selected(b, <<>>, <<play>>, "none", cmd, TRUE)
            ELSE LET r == update_playback_state(b, resp) IN
                Selected(r.bar, <<Notice("Playback started!", "information")>>,
                         <<play, ReadCall(resp)>>, r.poll, "ok", FALSE)

\* The user presses Enter on a rendered row: the table posts RowSelected with
\* its cursor_row; the app handles the message later.
PostRowSelected ==
    /\ Running
    /\ EventLoopFree
    /\ Len(msgs) < MaxQueue
    /\ \E r \in 1..Len(rows) : msgs' = Append(msgs, r - 1)
    /\ last' = Unit("row_posted", None, "none", "ok")
    /\ notifications' = <<>>
    /\ calls' = <<>>
    /\ UNCHANGED <<playlists, current_playlist_tracks, list_view, columns, rows,
                   bar, worker, inflight, staleApplied, crashed>>

\* The app handles the oldest RowSelected message.
RowSelectedWith(cmd, resp) ==
    /\ Running
    /\ EventLoopFree
    /\ msgs # <<>>
    /\ LET r == on_data_table_row_selected(current_playlist_tracks, bar,
                                           Head(msgs), cmd, resp)
       IN
        /\ bar' = r.bar
        /\ notifications' = r.notifications
        /\ calls' = r.calls
        /\ last' = Unit("row_selected", Some(Head(msgs)), r.poll, r.outcome)
        /\ crashed' = r.escaped
        /\ inflight' = IF r.poll = "applied"
                       THEN [j \in DOMAIN inflight |-> TRUE]
                       ELSE inflight
    /\ msgs' = Tail(msgs)
    /\ UNCHANGED <<playlists, current_playlist_tracks, list_view, columns, rows,
                   worker, staleApplied>>

\* The poll's read happens only after a play command that succeeded.
NoRead == [raises |-> "ConnectionError", value |-> None]

OnDataTableRowSelected ==
    /\ msgs # <<>>
    /\ \E cmd \in CommandOutcomes :
        \E resp \in (IF cmd = "ok" THEN PlaybackResponses ELSE {NoRead}) :
            RowSelectedWith(cmd, resp)

\* ------------------------------------------------------- transport controls
Commanded(cs, poll, outcome) == [calls |-> cs, poll |-> poll, outcome |-> outcome]

\* What a bare except (lines 189, 193, 197) knows of a command's outcome.
Dropped(cmd) == IF cmd = "ok" THEN "ok" ELSE "raised"
Command(fn, cmd) == Call(fn, <<>>, Dropped(cmd))

\* Variant: the two branches of the toggle exchanged.
action_toggle_play_inverted(resp, cmd) ==
    IF resp.raises # ""
    THEN Commanded(<<ReadCall(resp)>>, "raised", "raised")
    ELSE IF resp.value # None /\ resp.value[1].is_playing
    THEN Commanded(<<ReadCall(resp), Command("start_playback", cmd)>>,
                   "playing", Dropped(cmd))
    ELSE Commanded(<<ReadCall(resp), Command("pause_playback", cmd)>>,
                   IF resp.value = None THEN "empty" ELSE "not_playing",
                   Dropped(cmd))

\* SpotifyTUI.action_toggle_play: the read answers resp, the command ends as
\* cmd; the bare except of line 189 drops every exception.
action_toggle_play(resp, cmd) ==
    IF resp.raises # ""
    THEN Commanded(<<ReadCall(resp)>>, "raised", "raised")
    ELSE IF resp.value # None /\ resp.value[1].is_playing
    THEN Commanded(<<ReadCall(resp), Command("pause_playback", cmd)>>,
                   "playing", Dropped(cmd))
    ELSE Commanded(<<ReadCall(resp), Command("start_playback", cmd)>>,
                   IF resp.value = None THEN "empty" ELSE "not_playing",
                   Dropped(cmd))

\* SpotifyTUI.action_next_track.
action_next_track(cmd) ==
    Commanded(<<Command("next_track", cmd)>>, "none", Dropped(cmd))

\* SpotifyTUI.action_prev_track.
action_prev_track(cmd) ==
    Commanded(<<Command("previous_track", cmd)>>, "none", Dropped(cmd))

\* A key binding runs a transport action; none of them notifies or polls.
Transport(op, r) ==
    /\ calls' = r.calls
    /\ last' = Unit(op, None, r.poll, r.outcome)
    /\ notifications' = <<>>
    /\ UNCHANGED <<playlists, current_playlist_tracks, list_view, columns, rows,
                   bar, worker, msgs, inflight, staleApplied, crashed>>

\* action_toggle_play reads only is_playing: one answer per value of it.
ToggleReads ==
    {r \in PlaybackResponses :
        r.value # None => (r.value[1].item = None /\ r.value[1].progress_ms = 50000)}

TogglePlayWith(resp, cmd) ==
    /\ Running
    /\ EventLoopFree
    /\ Transport("toggle_play", action_toggle_play(resp, cmd))

ActionTogglePlay ==
    /\ Running
    /\ \E resp \in ToggleReads : \E cmd \in CommandOutcomes :
        TogglePlayWith(resp, cmd)

ActionNextTrack ==
    /\ Running
    /\ EventLoopFree
    /\ \E cmd \in CommandOutcomes :
        Transport("next_track", action_next_track(cmd))

ActionPrevTrack ==
    /\ Running
    /\ EventLoopFree
    /\ \E cmd \in CommandOutcomes :
        Transport("prev_track", action_prev_track(cmd))

Next ==
    \/ TickStart
    \/ TickReturn
    \/ SetupUiRun
    \/ LoadTracksRun
    \/ OnListViewSelected
    \/ PostRowSelected
    \/ OnDataTableRowSelected
    \/ ActionTogglePlay
    \/ ActionNextTrack
    \/ ActionPrevTrack

Spec == Init /\ [][Next]_vars

\* The same program with the scheduling of on_mount's set_interval(1, ...):
\* while the application runs the timer keeps firing, and a read that was
\* sent comes back.
FairSpec == Spec /\ WF_vars(TickStart) /\ WF_vars(TickReturn)
\* ------------------------------------------------------------------ claims
\* The answers of current_playback() by what they report.
Raised(resp) == resp.raises # ""
Reported(resp) == resp.value[1]
HasTrack(resp) ==
    /\ ~Raised(resp)
    /\ resp.value # None
    /\ Reported(resp).item # None
    /\ Reported(resp).item[1].artists # <<>>
SuccessfulResponses == {r \in PlaybackResponses : HasTrack(r)}
PlayingResponses == {r \in SuccessfulResponses : Reported(r).is_playing}
IdleResponses ==
    {r \in PlaybackResponses :
        ~Raised(r) /\ (r.value = None \/ ~Reported(r).is_playing)}
FailingResponses ==
    {r \in PlaybackResponses :
        \/ Raised(r)
        \/ /\ r.value # None
           /\ Reported(r).is_playing
           /\ (Reported(r).item = None \/ Reported(r).item[1].artists = <<>>)}

\* The bar that shows exactly the snapshot of resp.
SnapshotBar(resp) ==
    [label |-> "<U+1F3B5> " \o Reported(resp).item[1].name \o " - "
                   \o Reported(resp).item[1].artists[1],
     total |-> Reported(resp).item[1].duration_ms,
     progress |-> Reported(resp).progress_ms]

\* A poll whose read answers resp ends in this step: a timer tick, or the
\* call made by a track selection after its play command succeeded.
PolledWith(resp) ==
    \/ \E i \in DOMAIN inflight : TickReturnWith(i, resp)
    \/ RowSelectedWith("ok", resp) /\ last'.outcome = "ok"

\* The steps that can end a poll (every other step satisfies no PolledWith).
PollStep == last'.op \in {"tick", "row_selected"} /\ last'.poll # "none"

\* The remote write commands among the calls of the latest unit of work.
Writes(cs) == SelectSeq(cs, LAMBDA c : c.fn # "current_playback")
Reads(cs) == SelectSeq(cs, LAMBDA c : c.fn = "current_playback")

\* C1 as stated: after every successful poll the bar shows the snapshot that
\* poll returned, and no poll result is applied after the result of a poll
\* that started later.
C1_ShowsEverySnapshot ==
    [][/\ PollStep => \A resp \in SuccessfulResponses :
            PolledWith(resp) => bar' = SnapshotBar(resp)
       /\ ~staleApplied']_vars

\* C1 amended: after a successful poll the bar shows that poll's snapshot if
\* it reports is_playing, and otherwise what it showed before (the snapshot
\* of the latest successful poll that reported a playing track); no poll
\* result is applied after the result of a poll that started later.
C1_ShowsLatestPlayingSnapshot ==
    [][/\ PollStep => \A resp \in SuccessfulResponses :
            PolledWith(resp) =>
                bar' = IF Reported(resp).is_playing THEN SnapshotBar(resp) ELSE bar
       /\ ~staleApplied']_vars

C1_Witness ==
    /\ last.op = "tick"
    /\ last.poll = "not_playing"
    /\ bar # InitialBar
    /\ ~staleApplied

\* C2: a poll that fails (the read raises, or is_playing is true and the item
\* or its first artist is missing) leaves label, total and progress as they
\* were and notifies nothing: a tick shows no notification at all, a track
\* selection only the "Playback started!" it showed before it polled.
C2_FailedPollChangesNothing ==
    [][PollStep => \A resp \in FailingResponses :
        PolledWith(resp) =>
            /\ bar' = bar
            /\ notifications' =
                   IF last'.op = "tick" THEN <<>>
                   ELSE <<Notice("Playback started!", "information")>>]_vars

C2_Witness ==
    /\ last.op = "tick"
    /\ last.poll = "malformed"
    /\ bar # InitialBar
    /\ notifications = <<>>

\* C3: a poll that succeeds with is_playing true and an item N, X, D, P sets
\* the label to "<U+1F3B5> N - X", total to D and progress to P, whatever the
\* bar showed before.
C3_PlayingSnapshotReplacesBar ==
    [][PollStep => \A resp \in PlayingResponses :
        PolledWith(resp) => bar' = SnapshotBar(resp)]_vars

C3_Witness ==
    /\ last.op = "tick"
    /\ last.poll = "applied"
    /\ bar = [label |-> "<U+1F3B5> B - Y", total |-> 180000, progress |-> 50000]

\* C4: a poll that succeeds with an empty result or is_playing false leaves
\* the bar unchanged, and a bar that shows a track never goes back to
\* "Not Playing".
C4_IdlePollKeepsBar ==
    [][/\ PollStep => \A resp \in IdleResponses : PolledWith(resp) => bar' = bar
       /\ bar.label # "Not Playing" => bar'.label # "Not Playing"]_vars

C4_Witness ==
    /\ last.op = "tick"
    /\ last.poll = "empty"
    /\ bar.label = "<U+1F3B5> A - X"

\* C5: a toggle whose read reports playing issues exactly one write, a pause;
\* a toggle whose read reports not playing or no playback issues exactly one
\* write, a start.
C5_ToggleIssuesOneCommand ==
    [][last'.op = "toggle_play" =>
        \A resp \in ToggleReads : \A cmd \in CommandOutcomes :
        (~Raised(resp) /\ TogglePlayWith(resp, cmd)) =>
            /\ Len(Writes(calls')) = 1
            /\ Writes(calls')[1].fn =
                   IF resp \in IdleResponses THEN "start_playback"
                   ELSE "pause_playback"]_vars

C5_Witness ==
    /\ last.op = "toggle_play"
    /\ last.poll = "playing"
    /\ Len(calls) = 2
    /\ calls[2].fn = "pause_playback"

\* C6: a transport control whose read or command raises shows a notification.
C6_TransportFailureNotified ==
    (last.op \in {"toggle_play", "next_track", "prev_track"}
        /\ last.outcome = "raised") => notifications # <<>>

\* C7: selecting a playlist row with no index, or an index at or beyond the
\* playlist count, raises nothing, calls nothing, starts no load_tracks and
\* leaves track list, table and bar unchanged.
C7_OutOfRangePlaylistIsNoop ==
    [][(last'.op = "list_selected"
            /\ (last'.index = None \/ last'.index[1] >= Len(playlists))) =>
        /\ ~crashed'
        /\ calls' = <<>>
        /\ notifications' = <<>>
        /\ UNCHANGED <<worker, current_playlist_tracks, rows, bar>>]_vars

C7_Witness ==
    /\ last.op = "list_selected"
    /\ playlists # <<>>
    /\ last.index = Some(Len(playlists))
    /\ rows # <<>>
    /\ ~crashed

\* C8: selecting a track row whose index is outside the held track list is a
\* no-op: no exception escapes the handler and no play command is sent.
C8_OutOfRangeRowIsNoop ==
    (last.op = "row_selected"
        /\ last.index[1] >= Len(current_playlist_tracks)) =>
            (~crashed /\ calls = <<>> /\ notifications = <<>>)

\* C9: no exception escapes any handler to the run loop.
C9_NoExceptionEscapes == ~crashed

\* C10: a track selection whose play command succeeds calls the poll exactly
\* once, right after the command and in the same handler with no timer poll
\* in flight; a playing snapshot returned by that poll is what the bar shows.
C10_SelectionPollsAtOnce ==
    [][(last'.op = "row_selected" /\ last'.outcome = "ok") =>
        \A resp \in PlaybackResponses :
        (RowSelectedWith("ok", resp) /\ last'.outcome = "ok") =>
            /\ Len(calls') = 2
            /\ Len(Reads(calls')) = 1
            /\ calls'[1].fn = "start_playback"
            /\ calls'[2].fn = "current_playback"
            /\ inflight = <<>>
            /\ resp \in PlayingResponses => bar' = SnapshotBar(resp)]_vars

C10_Witness ==
    /\ last.op = "row_selected"
    /\ last.outcome = "ok"
    /\ last.poll = "applied"
    /\ calls[1].args = <<TrackA.uri>>
    /\ bar.label = "<U+1F3B5> A - X"

\* The table rows of a page: one per entry whose track is not null, in order,
\* with its title, its artists joined by ", " and its album.
Playable(items) == SelectSeq(items, LAMBDA e : e.track # None)
RenderedRows(items) ==
    [i \in DOMAIN Playable(items) |->
        <<Playable(items)[i].track[1].name,
          JoinNames(Playable(items)[i].track[1].artists),
          Playable(items)[i].track[1].album[1]>>]

\* C11: after load_tracks succeeds, current_playlist_tracks is exactly the
\* fetched page, in order, and the table holds exactly the rows of that page:
\* nothing of the list or table held before remains.
C11_FetchReplacesWholesale ==
    [][(last'.op = "load_tracks" /\ last'.outcome = "ok") =>
        \A resp \in TrackResponses :
            LoadTracksWith(resp) =>
                /\ current_playlist_tracks' = resp.items
                /\ rows' = RenderedRows(resp.items)]_vars

C11_Witness ==
    /\ last.op = "load_tracks"
    /\ last.outcome = "ok"
    /\ calls[1].args = <<"p2">>
    /\ current_playlist_tracks = <<[track |-> None], [track |-> Some(TrackB)]>>
    /\ rows = <<<<"B", "Y, X", "Al2">>>>
\* A read of the remote state that answers: playing, the track t.
Playing(t) == {resp \in PlayingResponses : resp.value[1].item = Some(t)}
ShowsTrack(t) ==
    /\ bar.label = Note \o " " \o t.name \o " - " \o t.artists[1]
    /\ bar.total = t.duration_ms
\* A step in which no read ends, or the read that ends fails or answers
\* "playing t".
SettledOn(t) ==
    PollStep =>
        \/ last'.poll = "raised"
        \/ \E resp \in Playing(t) : PolledWith(resp)
\* A periodic poll ends with the answer "playing t".
TickShows(t) ==
    /\ last'.op = "tick"
    /\ last'.poll = "applied"
    /\ \E resp \in Playing(t) : PolledWith(resp)

\* C12: with the periodic tick firing fairly, if from some point on every
\* read that does not fail answers "playing t" for one track t, and periodic
\* polls go on succeeding, then eventually, and from then on, the bar shows
\* the name, the first artist and the duration of t.
C12_ConvergesOnStableTrack ==
    \A t \in {TrackA, TrackB} :
        (<>[][SettledOn(t)]_vars /\ []<><<TickShows(t)>>_vars)
            => <>[]ShowsTrack(t)

\* A periodic poll has just answered "playing B" and the bar shows B.
C12_Witness ==
    /\ last.op = "tick"
    /\ last.poll = "applied"
    /\ staleApplied = FALSE
    /\ ShowsTrack(TrackB)
    /\ bar.progress = 50000
\* C13: between units of work the bar is never torn: label, total and progress
\* are all three the initial ones, or all three those of one and the same
\* playing snapshot.
C13_BarNeverTorn ==
    \/ bar = InitialBar
    \/ \E resp \in PlayingResponses : bar = SnapshotBar(resp)

\* A poll that failed half way (playing, the first artist missing) after the
\* bar had taken a snapshot of A.
C13_Witness ==
    /\ last.op = "row_selected"
    /\ last.poll = "malformed"
    /\ bar = [label |-> "<U+1F3B5> A - X", total |-> 200000, progress |-> 250000]
TransportOps == {"toggle_play", "next_track", "prev_track"}

\* C14: a transport control (toggle, next, previous) whose command is accepted
\* has issued exactly one remote command and, after it and in the same
\* handler, a read of the playback state.
C14_TransportPollsAtOnce ==
    (last.op \in TransportOps /\ last.outcome = "ok") =>
        /\ Len(Writes(calls)) = 1
        /\ calls[Len(calls)].fn = "current_playback"
\* C15: the displayed progress never exceeds the displayed total, also after
\* a snapshot whose progress_ms is beyond its duration_ms.
C15_ProgressWithinTotal == bar.progress <= bar.total
\* C16: when the play command of a track selection fails with a remote API
\* error, one error notification is shown and no "Playback started!", the
\* handler has issued that one play command and nothing else (no read of the
\* playback state, no second play), and the bar is as it was.
C16_FailedPlayStopsThere ==
    [][(last'.op = "row_selected" /\ last'.outcome = "SpotifyException") =>
        /\ Len(notifications') = 1
        /\ notifications'[1].severity = "error"
        /\ \A i \in DOMAIN notifications' :
                notifications'[i].text # "Playback started!"
        /\ Len(calls') = 1
        /\ calls'[1].fn = "start_playback"
        /\ calls'[1].result = "SpotifyException"
        /\ bar' = bar
        /\ ~crashed']_vars

C16_Witness ==
    /\ last.op = "row_selected"
    /\ last.outcome = "SpotifyException"
    /\ notifications = <<Notice("Ensure Spotify is open on a device!", "error")>>
    /\ calls = <<Call("start_playback", <<TrackB.uri>>, "SpotifyException")>>
    /\ bar.label = "<U+1F3B5> A - X"
\* The track whose URI the latest unit of work handed to start_playback.
Played == CHOOSE t \in Catalogue : t.uri = calls[1].args[1]

\* C17: the track played by selecting row r is the track the table displays
\* in row r, also when the held list has entries with a null track.
C17_PlaysTheDisplayedRow ==
    (last.op = "row_selected" /\ calls # <<>>) =>
        /\ last.index[1] < Len(rows)
        /\ rows[last.index[1] + 1][1] = Played.name
\* A load_tracks worker is pending.
LoadPending == worker # None /\ worker[1].fn = "load_tracks"

\* C18: the last playlist selection wins.  Step by step: an in-range selection
\* leaves exactly one pending load, that of the playlist just selected,
\* whatever was pending; a pending load stays as it is, with the held list
\* and the table, until it runs; when it runs it fetches the playlist it was
\* started for and, the fetch succeeding, leaves that fetch in the held list
\* and the table; and with no load pending only a new selection changes any
\* of it.  So once all workers have finished, list and table are those of
\* the most recently selected playlist.
C18_LastSelectionWins ==
    [][/\ (last'.op = "list_selected" /\ last'.outcome = "ok") =>
            /\ worker' = Some([fn |-> "load_tracks",
                               arg |-> playlists[last'.index[1] + 1].id])
            /\ UNCHANGED <<current_playlist_tracks, rows>>
       /\ (LoadPending /\ last'.op # "list_selected") =>
            \/ UNCHANGED <<worker, current_playlist_tracks, rows>>
            \/ /\ last'.op = "load_tracks"
               /\ worker' = None
               /\ calls'[1].fn = "playlist_items"
               /\ calls'[1].args = <<worker[1].arg>>
               /\ last'.outcome = "ok" =>
                    \E resp \in TrackResponses :
                        /\ resp.raises = ""
                        /\ current_playlist_tracks' = resp.items
                        /\ rows' = RenderedRows(resp.items)
       /\ (worker = None /\ last'.op # "list_selected") =>
            UNCHANGED <<worker, current_playlist_tracks, rows>>]_vars

\* All workers have finished, the last of them the load of playlist p1.
C18_Witness ==
    /\ last.op = "load_tracks"
    /\ last.outcome = "ok"
    /\ worker = None
    /\ calls = <<Call("playlist_items", <<"p1">>, "ok")>>
    /\ current_playlist_tracks = <<[track |-> Some(TrackA)], [track |-> Some(TrackB)]>>
    /\ rows = <<<<"A", "X", "Al1">>, <<"B", "Y, X", "Al2">>>>
\* C19: whenever load_tracks ends in its error branch (the fetch raises, or a
\* fetched entry is malformed while rows are being added) one error
\* notification is shown and current_playlist_tracks and the table rows are
\* both exactly what they were before the call.
C19_FailedLoadChangesNothing ==
    [][(last'.op = "load_tracks" /\ last'.outcome # "ok") =>
        /\ Len(notifications') = 1
        /\ notifications'[1].severity = "error"
        /\ UNCHANGED <<current_playlist_tracks, rows>>]_vars
====
